---- MODULE Spec2Model ----
(***************************************************************************)
(* Model of the ud3tn AAP client (rust-ud3tn): the wire codec of           *)
(* src/src/message.rs and the session operations of src/src/lib.rs.        *)
(* Bytes are integers 0..255, texts and payloads are sequences of bytes.   *)
(***************************************************************************)
EXTENDS Integers, Sequences, FiniteSets, TLC

\* ------------------------------------------------------------------------
\* Bounds of the model
\* ------------------------------------------------------------------------

\* longest proper prefix of an encoding that is cut off and parsed
MaxCut == 14

\* number of messages the peer sends on the stream
MaxScript == 4

\* number of operations the caller invokes on a connected session
MaxCalls == 2

\* ------------------------------------------------------------------------
\* Integer widths
\* ------------------------------------------------------------------------

U16 == 65536

\* the 64-bit quantities of the codec are held as their 8 big-endian bytes, cut
\* into the high 5 bytes and the low 3 bytes: every buffer of the model is
\* shorter than 2^24 bytes
Low24 == 256 * 256 * 256

\* big-endian value of a sequence of bytes (u16::from_be_bytes, u64::from_be_bytes)
RECURSIVE from_be_bytes(_)
from_be_bytes(b) ==
    IF b = <<>> THEN 0
    ELSE 256 * from_be_bytes(SubSeq(b, 1, Len(b) - 1)) + b[Len(b)]

\* the w big-endian bytes of n (to_be_bytes)
RECURSIVE to_be_bytes(_, _)
to_be_bytes(n, w) ==
    IF w = 0 THEN <<>>
    ELSE Append(to_be_bytes(n \div 256, w - 1), n % 256)

\* ------------------------------------------------------------------------
\* String::from_utf8: is a sequence of bytes well-formed UTF-8
\* ------------------------------------------------------------------------

IsCont(b) == b >= 128 /\ b <= 191

\* number of bytes of the scalar a lead byte opens, 0 when no scalar starts so
Utf8Width(b) ==
    IF b <= 127 THEN 1
    ELSE IF b >= 194 /\ b <= 223 THEN 2
    ELSE IF b >= 224 /\ b <= 239 THEN 3
    ELSE IF b >= 240 /\ b <= 244 THEN 4
    ELSE 0

\* the range of the second byte, narrowed after E0, ED, F0 and F4
Utf8SecondOk(lead, b) ==
    IF lead = 224 THEN b >= 160 /\ b <= 191
    ELSE IF lead = 237 THEN b >= 128 /\ b <= 159
    ELSE IF lead = 240 THEN b >= 144 /\ b <= 191
    ELSE IF lead = 244 THEN b >= 128 /\ b <= 143
    ELSE IsCont(b)

from_utf8_ok(s) ==
    \A i \in 1..Len(s) :
        IF IsCont(s[i])
        THEN \E j \in 1..3 :
                /\ i - j >= 1
                /\ ~IsCont(s[i - j])
                /\ Utf8Width(s[i - j]) > j
                /\ \A k \in 1..(j - 1) : IsCont(s[i - k])
        ELSE /\ Utf8Width(s[i]) >= 1
             /\ i + Utf8Width(s[i]) - 1 <= Len(s)
             /\ \A k \in 1..(Utf8Width(s[i]) - 1) : IsCont(s[i + k])
             /\ Utf8Width(s[i]) >= 2 => Utf8SecondOk(s[i], s[i + 1])

\* ------------------------------------------------------------------------
\* Message (message.rs): one record shape for every variant
\* ------------------------------------------------------------------------

Msg(t, e, p, i) == [type |-> t, eid |-> e, payload |-> p, bundle_id |-> i]

Ack == Msg("Ack", <<>>, <<>>, <<>>)
Nack == Msg("Nack", <<>>, <<>>, <<>>)
Ping == Msg("Ping", <<>>, <<>>, <<>>)
Register(e) == Msg("Register", e, <<>>, <<>>)
Welcome(e) == Msg("Welcome", e, <<>>, <<>>)
SendBundle(e, p) == Msg("SendBundle", e, p, <<>>)
RecvBundle(e, p) == Msg("RecvBundle", e, p, <<>>)
SendConfirm(i) == Msg("SendConfirm", <<>>, <<>>, i)
CancelBundle(i) == Msg("CancelBundle", <<>>, <<>>, i)
SendBIBE(e, p) == Msg("SendBIBE", e, p, <<>>)
RecvBIBE(e, p) == Msg("RecvBIBE", e, p, <<>>)

\* the value standing where no message is held
NoMessageValue == Msg("none", <<>>, <<>>, <<>>)

\* ------------------------------------------------------------------------
\* Message::to_bytes
\* ------------------------------------------------------------------------

\* the two BIBE variants reach todo!() and panic
to_bytes_panics(m) == m.type \in {"SendBIBE", "RecvBIBE"}

TypeCode(m) ==
    CASE m.type = "Ack" -> 0
      [] m.type = "Nack" -> 1
      [] m.type = "Register" -> 2
      [] m.type = "SendBundle" -> 3
      [] m.type = "RecvBundle" -> 4
      [] m.type = "SendConfirm" -> 5
      [] m.type = "CancelBundle" -> 6
      [] m.type = "Welcome" -> 7
      [] m.type = "Ping" -> 8

\* str.len() as u16 keeps the low 16 bits of the length
append_string(target, str) ==
    target \o to_be_bytes(Len(str) % U16, 2) \o str

append_bytes(target, bytes) ==
    target \o to_be_bytes(Len(bytes), 8) \o bytes

to_bytes(m) ==
    LET result == <<16 + TypeCode(m)>>
    IN  CASE m.type \in {"Register", "Welcome"} -> append_string(result, m.eid)
          [] m.type \in {"SendBundle", "RecvBundle"} ->
                append_bytes(append_string(result, m.eid), m.payload)
          [] m.type \in {"SendConfirm", "CancelBundle"} -> result \o m.bundle_id
          [] OTHER -> result

\* ------------------------------------------------------------------------
\* Message::parse_buffer
\* ------------------------------------------------------------------------

ParseOk(m, n) == [kind |-> "Ok", msg |-> m, consumed |-> n, err |-> "none", code |-> 0]
ParseErr(e, c) == [kind |-> "Err", msg |-> NoMessageValue, consumed |-> 0, err |-> e, code |-> c]
ParsePanic == [kind |-> "Panic", msg |-> NoMessageValue, consumed |-> 0, err |-> "none", code |-> 0]

VersionNotSupported == ParseErr("VersionNotSupported", 0)
UnknownType(t) == ParseErr("UnknownType", t)
UnexpectedEnd == ParseErr("UnexpectedEnd", 0)
Utf8Error == ParseErr("Utf8Error", 0)

\* bytes[from..to] of a Rust slice (0-based, end exclusive); the caller has
\* checked to <= len
Slice(bytes, from, to) == SubSeq(bytes, from + 1, to)

\* the 16-bit length and the text that follow the header: the slice
\* bytes[offset..offset+2] and the slice bytes[offset..offset+eid_length]
\* panic when they run past the end of the buffer, so try_into never fails
parse_eid(bytes, offset) ==
    IF offset + 2 > Len(bytes) THEN ParsePanic
    ELSE LET eid_length == from_be_bytes(Slice(bytes, offset, offset + 2))
             start == offset + 2
         IN  IF start + eid_length > Len(bytes) THEN ParsePanic
             ELSE LET eid == Slice(bytes, start, start + eid_length)
                  IN  IF from_utf8_ok(eid)
                      THEN ParseOk(Register(eid), start + eid_length)
                      ELSE Utf8Error

\* the 64-bit length and the payload of SendBundle and RecvBundle.  With
\* start < 2^24 the sum start+payload_length reaches 2^64 exactly when the
\* high 5 bytes are all 0xFF and start+low >= 2^24; it then panics when the
\* build checks overflow and wraps to start+low-2^24 when it does not.  A
\* length of 2^24 or more that does not overflow is past the end of the buffer.
parse_payload(bytes, offset, checks) ==
    IF offset + 8 > Len(bytes) THEN ParsePanic
    ELSE LET high == Slice(bytes, offset, offset + 5)
             low == from_be_bytes(Slice(bytes, offset + 5, offset + 8))
             start == offset + 8
             small == \A i \in 1..5 : high[i] = 0
             overflow == (\A i \in 1..5 : high[i] = 255) /\ start + low >= Low24
             end == IF overflow THEN start + low - Low24 ELSE start + low
         IN  IF overflow /\ checks THEN ParsePanic
             ELSE IF ~small /\ ~overflow THEN UnexpectedEnd
             ELSE IF Len(bytes) < end THEN UnexpectedEnd
             ELSE IF start > end THEN ParsePanic
             ELSE ParseOk(SendBundle(<<>>, Slice(bytes, start, end)), end)

parse_bundle(bytes, t, checks) ==
    LET e == parse_eid(bytes, 1)
    IN  IF e.kind # "Ok" THEN e
        ELSE LET p == parse_payload(bytes, e.consumed, checks)
             IN  IF p.kind # "Ok" THEN p
                 ELSE ParseOk(Msg(t, e.msg.eid, p.msg.payload, <<>>), p.consumed)

parse_text(bytes, t) ==
    LET e == parse_eid(bytes, 1)
    IN  IF e.kind # "Ok" THEN e
        ELSE ParseOk(Msg(t, e.msg.eid, <<>>, <<>>), e.consumed)

parse_id(bytes, t) ==
    IF 9 > Len(bytes) THEN ParsePanic
    ELSE ParseOk(Msg(t, <<>>, <<>>, Slice(bytes, 1, 9)), 9)

\* the match on message_type
parse_message(bytes, message_type, checks) ==
    CASE message_type = 0 -> ParseOk(Ack, 1)
      [] message_type = 1 -> ParseOk(Nack, 1)
      [] message_type = 2 -> parse_text(bytes, "Register")
      [] message_type = 3 -> parse_bundle(bytes, "SendBundle", checks)
      [] message_type = 4 -> parse_bundle(bytes, "RecvBundle", checks)
      [] message_type = 5 -> parse_id(bytes, "SendConfirm")
      [] message_type = 6 -> parse_id(bytes, "CancelBundle")
      [] message_type = 7 -> parse_text(bytes, "Welcome")
      [] message_type = 8 -> ParseOk(Ping, 1)
      [] OTHER -> UnknownType(message_type)

\* parse_buffer with the version taken from the upper three bits only
parse_buffer_version_mask(bytes, checks) ==
    IF Len(bytes) = 0 THEN ParsePanic
    ELSE IF bytes[1] \div 32 # 1 THEN VersionNotSupported
    ELSE parse_message(bytes, bytes[1] % 16, checks)

\* bytes[0] panics on the empty buffer
parse_buffer(bytes, checks) ==
    IF Len(bytes) = 0 THEN ParsePanic
    ELSE LET version == bytes[1] \div 16
             message_type == bytes[1] % 16
         IN  IF version # 1 THEN VersionNotSupported
             ELSE parse_message(bytes, message_type, checks)

\* ------------------------------------------------------------------------
\* Inputs
\* ------------------------------------------------------------------------

\* a text of 2^16 bytes, the shortest whose length does not fit the prefix
LongText == [i \in 1..U16 |-> 97]

\* texts are well-formed UTF-8: "", "a", "é" (C3 A9), "dt", and the long text
Texts == {<<>>, <<97>>, <<195, 169>>, <<100, 116>>, LongText}

Payloads == {<<>>, <<0>>, <<255, 16>>}

\* a legacy identifier and a versioned one that carries a time
Ids == {<<0, 0, 0, 0, 43, 214, 97, 71>>, <<192, 0, 0, 0, 0, 1, 0, 5>>}

Messages ==
    {Ack, Nack, Ping}
    \cup {Register(e) : e \in Texts} \cup {Welcome(e) : e \in Texts}
    \cup {SendBundle(e, p) : e \in Texts, p \in Payloads}
    \cup {RecvBundle(e, p) : e \in Texts, p \in Payloads}
    \cup {SendConfirm(i) : i \in Ids} \cup {CancelBundle(i) : i \in Ids}
    \cup {SendBIBE(<<97>>, <<0>>), RecvBIBE(<<97>>, <<0>>)}

\* an empty text and the 8 bytes of a payload length: 1, 5, 2^24, 2^64-2 and
\* 2^64-1
DeclaredLengths ==
    {<<0, 0>> \o l : l \in {<<0, 0, 0, 0, 0, 0, 0, 1>>,
                            <<0, 0, 0, 0, 0, 0, 0, 5>>,
                            <<0, 0, 0, 0, 1, 0, 0, 0>>,
                            <<255, 255, 255, 255, 255, 255, 255, 254>>,
                            <<255, 255, 255, 255, 255, 255, 255, 255>>}}

\* what may follow the first byte of a buffer that is not an encoding; the
\* declared lengths are followed by no byte of payload or by one
RawTails ==
    {<<>>, <<0>>, <<0, 1, 97>>, <<0, 1, 255>>, <<0, 0, 0, 0, 0, 0, 0, 0>>}
    \cup DeclaredLengths \cup {d \o <<7>> : d \in DeclaredLengths}

\* ------------------------------------------------------------------------
\* State
\* ------------------------------------------------------------------------

VARIABLES
    overflow_checks, \* the build panics on integer overflow (debug) or wraps
    msg,             \* codec: the message given to to_bytes
    encoded,         \* codec: the bytes to_bytes returned
    buffer,          \* codec: the bytes given to parse_buffer
    feed,            \* codec: how buffer was made: "whole", "prefix", "raw"
    parsed,          \* codec: what parse_buffer returned
    cpc,             \* codec: "start", "encoded", "panicked", "fed", "parsed"
    pc,              \* caller: "init", "recv" (inside recv_from), "idle",
                     \*   "failed" (connect returned Err), "panicked"
    op,              \* the function whose recv_from is running or ran last
    agent,           \* an Agent value was returned by connect_stream
    agent_id,        \* Agent::agent_id, the argument of connect_stream
    node_eid,        \* Agent::node_eid, bound by the Welcome arm
    arg_eid,         \* destination_eid of the running send_bundle
    arg_payload,     \* payload of the running send_bundle
    stream_dropped,  \* the BufReader and its stream went out of scope
    script,          \* the messages the peer sends in this run (fixed)
    incoming,        \* bytes of the peer not yet read from the inner stream
    closed,          \* the peer closes the stream after its last byte
    rbuf,            \* BufReader: the bytes read and not yet consumed
    written,         \* the bytes of each write_all on the stream, in order
    slept,           \* the last fill_buf reported WouldBlock and the loop slept
    stalled,         \* the loop finished an iteration that read nothing and
                     \*   changed nothing, so it repeats that iteration forever
    got,             \* the messages recv_from has returned, in order
    ret,             \* the result of the operation that ended last
    calls,           \* operations invoked on the session so far
    last_io,         \* the error the last fill_buf or write_all of the running
                     \*   operation returned, "none" if it returned Ok
    id,              \* identifier: the 8 bytes of the BundleIdentifier
    id_time,         \* identifier: what creation_time() returned
    id_seq,          \* identifier: what sequence_number() returned
    ipc,             \* identifier: the accessors called so far
    cfg,             \* config: the ConfigBundle given to to_string and to_bytes
    cfg_text,        \* config: what to_string returned, or its panic
    cfg_bytes,       \* config: what to_bytes returned, or its panic
    dtn,             \* time: the milliseconds of the DtnTime examined
    dtn_sys,         \* time: the SystemTime made from it
    dtn_back,        \* time: dtn_timestamp of that SystemTime, or its panic
    kpc,             \* config and time: the functions applied so far
    hist             \* what has happened on the session so far: replies, the
                     \*   messages recv_from returned to an operation that had
                     \*   written a request; failed, an operation returned Err;
                     \*   malformed, one returned Err(MalformedMessage)

id_vars == <<id, id_time, id_seq, ipc>>

config_vars == <<cfg, cfg_text, cfg_bytes, dtn, dtn_sys, dtn_back, kpc>>

\* the variables of the pure functions: the codec and the identifier
\* accessors of message.rs, the encoder of config.rs
codec_vars == <<msg, encoded, buffer, feed, parsed, cpc, id_vars, config_vars>>

stream_vars == <<script, incoming, closed, rbuf, written>>

session_vars ==
    <<pc, op, agent, agent_id, node_eid, arg_eid, arg_payload, stream_dropped,
      stream_vars, slept, stalled, got, ret, calls, last_io, hist>>

vars == <<overflow_checks, codec_vars, session_vars>>

NotParsed == ParseErr("none", 0)

\* results of the operations of Agent: Ok, Err(Error::...) or a panic.  on is
\* the message of recv_from the result was decided on, val carries the value
\* of Ok (the identifier, or source and payload), perr the ParseError of
\* MalformedMessage, io the error of IOError
Result(k, e, pe, i, m, v) ==
    [kind |-> k, err |-> e, perr |-> pe, io |-> i, on |-> m, val |-> v]

NoResult == Result("none", "none", NotParsed, "none", NoMessageValue, NoMessageValue)
Ok(m, v) == Result("Ok", "none", NotParsed, "none", m, v)
Err(e, m) == Result("Err", e, NotParsed, "none", m, NoMessageValue)
MalformedMessage(pe) ==
    Result("Err", "MalformedMessage", pe, "none", NoMessageValue, NoMessageValue)
IOError(e) == Result("Err", "IOError", NotParsed, e, NoMessageValue, NoMessageValue)
Panicked == Result("Panic", "none", NotParsed, "none", NoMessageValue, NoMessageValue)

NoHistory == [replies |-> 0, failed |-> FALSE, malformed |-> FALSE]

\* Option<u64> and Option<DtnTime>: the 64-bit value is held as its 8
\* big-endian bytes
None == [some |-> FALSE, value |-> <<>>]
Some(v) == [some |-> TRUE, value |-> v]

\* SystemTime: whole seconds and milliseconds after the Unix epoch
SystemTime(s, m) == [secs |-> s, ms |-> m]

\* a String, or the panic of the function that was to return it
Text(t) == [kind |-> "Ok", text |-> t]
TextPanic == [kind |-> "Panic", text |-> <<>>]

\* Result<u64, _>.unwrap() of dtn_timestamp
Secs(n) == [kind |-> "Ok", secs |-> n]
SecsPanic == [kind |-> "Panic", secs |-> 0]

\* ConfigBundle::DeleteContact(""), standing for no bundle
NoConfig == [kind |-> "none", eid |-> <<>>]

\* the config variables while no bundle and no time is examined
ConfigIdle ==
    /\ cfg = NoConfig
    /\ cfg_text = Text(<<>>)
    /\ cfg_bytes = Text(<<>>)
    /\ dtn = 0
    /\ dtn_sys = SystemTime(0, 0)
    /\ dtn_back = Secs(0)
    /\ kpc = {}

\* the identifier variables while no identifier is examined
IdIdle ==
    /\ id = <<>>
    /\ id_time = None
    /\ id_seq = None
    /\ ipc = {}

\* the codec variables while the session runs
CodecIdle ==
    /\ msg = NoMessageValue
    /\ encoded = <<>>
    /\ buffer = <<>>
    /\ feed = "none"
    /\ parsed = NotParsed
    /\ cpc = "off"
    /\ IdIdle
    /\ ConfigIdle

\* the session variables while the codec is applied to drawn inputs
SessionIdle ==
    /\ pc = "off"
    /\ op = "none"
    /\ agent = FALSE
    /\ agent_id = <<>>
    /\ node_eid = <<>>
    /\ arg_eid = <<>>
    /\ arg_payload = <<>>
    /\ stream_dropped = FALSE
    /\ script = <<>>
    /\ incoming = <<>>
    /\ closed = FALSE
    /\ rbuf = <<>>
    /\ written = <<>>
    /\ slept = FALSE
    /\ stalled = FALSE
    /\ got = <<>>
    /\ ret = NoResult
    /\ calls = 0
    /\ last_io = "none"
    /\ hist = NoHistory

\* ------------------------------------------------------------------------
\* The codec applied to its inputs
\* ------------------------------------------------------------------------

InitCodec ==
    /\ overflow_checks \in BOOLEAN
    /\ msg \in Messages \cup {NoMessageValue}
    /\ encoded = <<>>
    /\ buffer = <<>>
    /\ feed = "none"
    /\ parsed = NotParsed
    /\ cpc = "start"
    /\ IdIdle
    /\ ConfigIdle
    /\ SessionIdle

\* m.to_bytes()
ToBytes ==
    /\ cpc = "start"
    /\ msg # NoMessageValue
    /\ IF to_bytes_panics(msg)
       THEN cpc' = "panicked" /\ encoded' = encoded
       ELSE cpc' = "encoded" /\ encoded' = to_bytes(msg)
    /\ UNCHANGED <<overflow_checks, msg, buffer, feed, parsed, session_vars, id_vars, config_vars>>

\* the whole encoding is handed to the parser
FeedWhole ==
    /\ cpc = "encoded"
    /\ buffer' = encoded
    /\ feed' = "whole"
    /\ cpc' = "fed"
    /\ UNCHANGED <<overflow_checks, msg, encoded, parsed, session_vars, id_vars, config_vars>>

\* a proper prefix of the encoding is handed to the parser
FeedPrefix ==
    /\ cpc = "encoded"
    /\ \E k \in 0..MaxCut :
        /\ k < Len(encoded)
        /\ buffer' = SubSeq(encoded, 1, k)
    /\ feed' = "prefix"
    /\ cpc' = "fed"
    /\ UNCHANGED <<overflow_checks, msg, encoded, parsed, session_vars, id_vars, config_vars>>

\* any first byte and a tail are handed to the parser (no message was drawn)
FeedRaw ==
    /\ cpc = "start"
    /\ msg = NoMessageValue
    /\ \E h \in 0..255, t \in RawTails : buffer' = <<h>> \o t
    /\ feed' = "raw"
    /\ cpc' = "fed"
    /\ UNCHANGED <<overflow_checks, msg, encoded, parsed, session_vars, id_vars, config_vars>>

\* Message::parse_buffer(&buffer)
ParseBuffer ==
    /\ cpc = "fed"
    /\ parsed' = parse_buffer(buffer, overflow_checks)
    /\ cpc' = "parsed"
    /\ UNCHANGED <<overflow_checks, msg, encoded, buffer, feed, session_vars, id_vars, config_vars>>

NextCodec == ToBytes \/ FeedWhole \/ FeedPrefix \/ FeedRaw \/ ParseBuffer

SpecCodec == InitCodec /\ [][NextCodec]_vars

\* ------------------------------------------------------------------------
\* BundleIdentifier (message.rs): the accessors applied to identifiers
\* ------------------------------------------------------------------------

\* a & m on unsigned integers
RECURSIVE BitAnd(_, _)
BitAnd(a, m) ==
    IF a = 0 \/ m = 0 THEN 0
    ELSE (a % 2) * (m % 2) + 2 * BitAnd(a \div 2, m \div 2)

\* the literal 0b10000000 of is_v2_format
V2Mask == 128

\* the literal 0b010000000 of contains_creation_time: nine binary digits
\* with a leading zero, the same value as 0b10000000
TimeMask == 128

\* the literal 0b00111111 that strips the two flag bits of byte 0
ValueMask == 63

is_v2_format(i) == BitAnd(i[1], V2Mask) = V2Mask

contains_creation_time(i) ==
    is_v2_format(i) /\ BitAnd(i[1], TimeMask) = TimeMask

\* DtnTime(u64::from_be_bytes([0, 0, b0 & 0x3F, b1, b2, b3, b4, b5]))
creation_time(i) ==
    IF ~contains_creation_time(i) THEN None
    ELSE Some(<<0, 0, BitAnd(i[1], ValueMask), i[2], i[3], i[4], i[5], i[6]>>)

\* sequence_number reading a legacy identifier as one 64-bit integer
sequence_number_of_legacy(i) ==
    IF ~is_v2_format(i) THEN Some(i)
    ELSE IF contains_creation_time(i)
    THEN Some(<<0, 0, 0, 0, 0, 0, i[7], i[8]>>)
    ELSE Some(<<BitAnd(i[1], ValueMask), i[2], i[3], i[4], i[5], i[6], i[7], i[8]>>)

\* u16::from_be_bytes([b6, b7]) as u64 when the identifier holds a time, else
\* u64::from_be_bytes([b0 & 0x3F, b1, ..., b7])
sequence_number(i) ==
    IF ~is_v2_format(i) THEN None
    ELSE IF contains_creation_time(i)
    THEN Some(<<0, 0, 0, 0, 0, 0, i[7], i[8]>>)
    ELSE Some(<<BitAnd(i[1], ValueMask), i[2], i[3], i[4], i[5], i[6], i[7], i[8]>>)

\* bytes 1..7 of the identifiers examined
IdTails ==
    {<<0, 0, 0, 0, 0, 0, 5>>, <<0, 0, 0, 43, 214, 97, 71>>,
     <<255, 255, 255, 255, 255, 255, 255>>}

\* every byte 0 with each tail
BundleIds == {<<b>> \o t : b \in 0..255, t \in IdTails}

InitId ==
    /\ overflow_checks \in BOOLEAN
    /\ id \in BundleIds
    /\ id_time = None
    /\ id_seq = None
    /\ ipc = {}
    /\ msg = NoMessageValue
    /\ encoded = <<>>
    /\ buffer = <<>>
    /\ feed = "none"
    /\ parsed = NotParsed
    /\ cpc = "off"
    /\ ConfigIdle
    /\ SessionIdle

\* id.creation_time()
CreationTime ==
    /\ id # <<>>
    /\ "creation_time" \notin ipc
    /\ id_time' = creation_time(id)
    /\ ipc' = ipc \cup {"creation_time"}
    /\ UNCHANGED <<overflow_checks, msg, encoded, buffer, feed, parsed, cpc,
                   id, id_seq, session_vars, config_vars>>

\* id.sequence_number()
SequenceNumber ==
    /\ id # <<>>
    /\ "sequence_number" \notin ipc
    /\ id_seq' = sequence_number(id)
    /\ ipc' = ipc \cup {"sequence_number"}
    /\ UNCHANGED <<overflow_checks, msg, encoded, buffer, feed, parsed, cpc,
                   id, id_time, session_vars, config_vars>>

NextId == CreationTime \/ SequenceNumber

SpecId == InitId /\ [][NextId]_vars

\* ------------------------------------------------------------------------
\* DtnTime (message.rs) and ConfigBundle (config.rs)
\* ------------------------------------------------------------------------

\* Duration::from_secs(946684800) of dtn_timestamp
ConfigEpochOffset == 946684800

\* Duration::from_secs(946681200) of From<DtnTime> for SystemTime
DtnTimeEpochOffset == 946681200

\* a + Duration::from_millis(m) on a SystemTime
AddMillis(t, m) ==
    SystemTime(t.secs + (t.ms + m) \div 1000, (t.ms + m) % 1000)

\* SystemTime::from(DtnTime(m)): UNIX_EPOCH + from_secs(..) + from_millis(m)
SystemTime_from(m) == AddMillis(SystemTime(DtnTimeEpochOffset, 0), m)

\* dtn_timestamp that counts from the Unix epoch when the time is earlier
\* dtn_timestamp: duration_since is Err for a time before its argument and
\* unwrap panics; as_secs drops the part below a second
dtn_timestamp(time) ==
    IF time.secs < ConfigEpochOffset THEN SecsPanic
    ELSE Secs(time.secs - ConfigEpochOffset)

\* format!("{}", n) of a non-negative integer
RECURSIVE Digits(_)
Digits(n) == IF n < 10 THEN <<48 + n>> ELSE Digits(n \div 10) \o <<48 + (n % 10)>>

\* format!("{}", n) of an i32 or u64
Decimal(n) == IF n < 0 THEN <<45>> \o Digits(0 - n) ELSE Digits(n)

\* format!("{}", 4_294_967_200_i64)
UnlimitedText == <<52, 50, 57, 52, 57, 54, 55, 50, 48, 48>>

\* parts.join(",")
RECURSIVE Join(_)
Join(parts) ==
    IF parts = <<>> THEN <<>>
    ELSE IF Len(parts) = 1 THEN parts[1]
    ELSE parts[1] \o <<44>> \o Join(Tail(parts))

Limited(i) == [limited |-> TRUE, rate |-> i]
Unlimited == [limited |-> FALSE, rate |-> 0]

Contact(s, e, r) == [start |-> s, end |-> e, data_rate |-> r]

AddContact(e, r, c, rs, cs) ==
    [kind |-> "AddContact", eid |-> e, reliability |-> r, cla_address |-> c,
     reaches_eid |-> rs, contacts |-> cs]

ReplaceContact(e, r, c, rs, cs) ==
    [kind |-> "ReplaceContact", eid |-> e, reliability |-> r, cla_address |-> c,
     reaches_eid |-> rs, contacts |-> cs]

DeleteContact(e) == [kind |-> "DeleteContact", eid |-> e]

\* a contact whose start or end makes dtn_timestamp panic
ContactPanics(c) ==
    dtn_timestamp(c.start).kind = "Panic" \/ dtn_timestamp(c.end).kind = "Panic"

\* format!("{{{},{},{}}}", dtn_timestamp(start), dtn_timestamp(end), rate)
ContactText(c) ==
    <<123>> \o Decimal(dtn_timestamp(c.start).secs) \o <<44>>
    \o Decimal(dtn_timestamp(c.end).secs) \o <<44>>
    \o (IF c.data_rate.limited THEN Decimal(c.data_rate.rate) ELSE UnlimitedText)
    \o <<125>>

\* Some(r) => result + ",{r}", None => result
ReliabilityText(r) == IF r.some THEN <<44>> \o Decimal(r.value) ELSE <<>>

\* ":" + "[(eid),(eid)]" when there are reaches, ":" when there are none
ReachesText(rs) ==
    IF Len(rs) > 0
    THEN <<58>> \o <<91>> \o Join([i \in 1..Len(rs) |-> <<40>> \o rs[i] \o <<41>>]) \o <<93>>
    ELSE <<58>>

\* the contact section written as a bare ":" when there are no contacts
ContactsText_bare_colon(cs) ==
    IF Len(cs) > 0
    THEN <<58, 91>> \o Join([i \in 1..Len(cs) |-> ContactText(cs[i])]) \o <<93>>
    ELSE <<58>>

\* ":[{..},{..}]" when there are contacts, nothing when there are none
ContactsText(cs) ==
    IF Len(cs) > 0
    THEN <<58, 91>> \o Join([i \in 1..Len(cs) |-> ContactText(cs[i])]) \o <<93>>
    ELSE <<>>

\* the AddContact arm of to_string
to_string_AddContact(conf) ==
    <<49, 40>> \o conf.eid \o <<41>>
    \o ReliabilityText(conf.reliability)
    \o <<58, 40>> \o conf.cla_address \o <<41>>
    \o ReachesText(conf.reaches_eid)
    \o ContactsText(conf.contacts)

\* the ReplaceContact arm writing "()" for an absent CLA
to_string_ReplaceContact_empty_cla(conf) ==
    <<50, 40>> \o conf.eid \o <<41>>
    \o ReliabilityText(conf.reliability)
    \o (IF conf.cla_address.some
        THEN <<58, 40>> \o conf.cla_address.value \o <<41>>
        ELSE <<58, 40, 41>>)
    \o ReachesText(conf.reaches_eid)
    \o ContactsText(conf.contacts)

\* the ReplaceContact arm of to_string
to_string_ReplaceContact(conf) ==
    <<50, 40>> \o conf.eid \o <<41>>
    \o ReliabilityText(conf.reliability)
    \o (IF conf.cla_address.some
        THEN <<58, 40>> \o conf.cla_address.value \o <<41>>
        ELSE <<58>>)
    \o ReachesText(conf.reaches_eid)
    \o ContactsText(conf.contacts)

\* the DeleteContact arm written without its closing parenthesis
to_string_DeleteContact_open(eid) == <<51, 40>> \o eid

\* the DeleteContact arm of to_string
to_string_DeleteContact(eid) == <<51, 40>> \o eid \o <<41>>

\* ConfigBundle::to_string: the arm of the bundle, then ";".  A String is
\* held as its UTF-8 bytes
to_string(c) ==
    IF c.kind = "DeleteContact" THEN Text(to_string_DeleteContact(c.eid) \o <<59>>)
    ELSE IF \E i \in 1..Len(c.contacts) : ContactPanics(c.contacts[i]) THEN TextPanic
    ELSE IF c.kind = "AddContact" THEN Text(to_string_AddContact(c) \o <<59>>)
    ELSE Text(to_string_ReplaceContact(c) \o <<59>>)

\* ConfigBundle::to_bytes: Vec::from(self.to_string()), the bytes of the text
ConfigBundle_to_bytes(c) == to_string(c)

\* eids of contacts: "n" and "dtn://n/"
ConfigEids == {<<110>>, <<100, 116, 110, 58, 47, 47, 110, 47>>}

\* reliability: absent, 333, and a negative i32
Reliabilities == {None, Some(333), Some(0 - 5)}

\* CLA addresses: "c"
Clas == {<<99>>}

\* reaches_eid: none, "r", and "r" then "s"
ReachLists == {<<>>, <<<<114>>>>, <<<<114>>, <<115>>>>}

\* contact times: 2023-07-15 and a minute later, the DTN epoch, the half
\* second before it, and a time with a part below the second
ContactStart == SystemTime(1689456940, 0)
ContactEnd == SystemTime(1689457000, 0)
DtnEpoch == SystemTime(946684800, 0)
BeforeDtnEpoch == SystemTime(946684799, 500)
AfterDtnEpoch == SystemTime(946684801, 999)

ContactLists ==
    {<<>>,
     <<Contact(ContactStart, ContactEnd, Limited(1200))>>,
     <<Contact(ContactStart, ContactEnd, Limited(1200)),
       Contact(DtnEpoch, AfterDtnEpoch, Unlimited)>>,
     <<Contact(BeforeDtnEpoch, ContactStart, Limited(0 - 1))>>}

ConfigBundles ==
    {AddContact(e, r, c, rs, cs) :
        e \in ConfigEids, r \in Reliabilities, c \in Clas,
        rs \in ReachLists, cs \in ContactLists}
    \cup {ReplaceContact(e, r, c, rs, cs) :
        e \in ConfigEids, r \in Reliabilities, c \in {None} \cup {Some(a) : a \in Clas},
        rs \in ReachLists, cs \in ContactLists}
    \cup {DeleteContact(e) : e \in ConfigEids}

\* milliseconds of the DtnTime values examined
DtnTimes == {0, 1, 999, 1000, 3599999, 3600000, 742772140}

InitConfig ==
    /\ overflow_checks \in BOOLEAN
    /\ cfg \in ConfigBundles
    /\ cfg_text = Text(<<>>)
    /\ cfg_bytes = Text(<<>>)
    /\ dtn \in DtnTimes
    /\ dtn_sys = SystemTime(0, 0)
    /\ dtn_back = Secs(0)
    /\ kpc = {}
    /\ msg = NoMessageValue
    /\ encoded = <<>>
    /\ buffer = <<>>
    /\ feed = "none"
    /\ parsed = NotParsed
    /\ cpc = "off"
    /\ IdIdle
    /\ SessionIdle

\* cfg.to_string()
ConfigToString ==
    /\ cfg # NoConfig
    /\ "to_string" \notin kpc
    /\ cfg_text' = to_string(cfg)
    /\ kpc' = kpc \cup {"to_string"}
    /\ UNCHANGED <<overflow_checks, msg, encoded, buffer, feed, parsed, cpc,
                   id_vars, session_vars, cfg, cfg_bytes, dtn, dtn_sys, dtn_back>>

\* cfg.to_bytes()
ConfigToBytes ==
    /\ cfg # NoConfig
    /\ "to_bytes" \notin kpc
    /\ cfg_bytes' = ConfigBundle_to_bytes(cfg)
    /\ kpc' = kpc \cup {"to_bytes"}
    /\ UNCHANGED <<overflow_checks, msg, encoded, buffer, feed, parsed, cpc,
                   id_vars, session_vars, cfg, cfg_text, dtn, dtn_sys, dtn_back>>

\* DtnTime(dtn).as_system_time()
AsSystemTime ==
    /\ cfg # NoConfig
    /\ "as_system_time" \notin kpc
    /\ dtn_sys' = SystemTime_from(dtn)
    /\ kpc' = kpc \cup {"as_system_time"}
    /\ UNCHANGED <<overflow_checks, msg, encoded, buffer, feed, parsed, cpc,
                   id_vars, session_vars, cfg, cfg_text, cfg_bytes, dtn, dtn_back>>

\* dtn_timestamp of the SystemTime as_system_time returned
DtnTimestamp ==
    /\ "as_system_time" \in kpc
    /\ "dtn_timestamp" \notin kpc
    /\ dtn_back' = dtn_timestamp(dtn_sys)
    /\ kpc' = kpc \cup {"dtn_timestamp"}
    /\ UNCHANGED <<overflow_checks, msg, encoded, buffer, feed, parsed, cpc,
                   id_vars, session_vars, cfg, cfg_text, cfg_bytes, dtn, dtn_sys>>

NextConfig == ConfigToString \/ ConfigToBytes \/ AsSystemTime \/ DtnTimestamp

SpecConfig == InitConfig /\ [][NextConfig]_vars

\* ------------------------------------------------------------------------
\* The session (lib.rs): inputs
\* ------------------------------------------------------------------------

\* what the peer may send: "n" is the node identifier, "s" a bundle source
PeerMessages ==
    {Welcome(<<110>>), Ack, Nack, Ping,
     SendConfirm(<<0, 0, 0, 0, 43, 214, 97, 71>>),
     RecvBundle(<<115>>, <<7>>)}

\* bytes of the peer that are no message: the payload holds them
Garbage(b) == Msg("garbage", <<>>, b, <<>>)

\* what else the peer may send: a header of type 9, a header of version 2,
\* and a Welcome whose one byte of text, FF, is not UTF-8
PeerGarbage == {Garbage(<<25>>), Garbage(<<32>>), Garbage(<<23, 0, 1, 255>>)}

PeerItems == PeerMessages \cup PeerGarbage

\* the peer answers the handshake before it sends anything else: a script of
\* more than two items starts with Welcome and Ack
Handshake == <<Welcome(<<110>>), Ack>>

\* what the peer sends to a registered agent
SessionItems ==
    {Ack, SendConfirm(<<0, 0, 0, 0, 43, 214, 97, 71>>), RecvBundle(<<115>>, <<7>>),
     Garbage(<<25>>)}

Scripts ==
    UNION {[1..n -> PeerItems] : n \in 0..2}
    \cup {Handshake \o t : t \in UNION {[1..n -> SessionItems] : n \in 1..(MaxScript - 2)}}

AgentIds == {<<97>>}

Destinations == {<<100, 116>>}

BundlePayloads == {<<7, 8>>}

\* kinds of std::io::Error other than WouldBlock
IoErrors == {"ConnectionReset"}

\* the bytes of one item of the script
ItemBytes(m) == IF m.type = "garbage" THEN m.payload ELSE to_bytes(m)

\* the bytes of a sequence of items, one after the other
RECURSIVE Wire(_)
Wire(q) == IF q = <<>> THEN <<>> ELSE ItemBytes(Head(q)) \o Wire(Tail(q))

\* ------------------------------------------------------------------------
\* The session: connect_stream, send_bundle, recv_bundle, try_recv_bundle
\* ------------------------------------------------------------------------

Init ==
    /\ overflow_checks \in BOOLEAN
    /\ CodecIdle
    /\ pc = "init"
    /\ op = "none"
    /\ agent = FALSE
    /\ agent_id = <<>>
    /\ node_eid = <<>>
    /\ arg_eid = <<>>
    /\ arg_payload = <<>>
    /\ stream_dropped = FALSE
    /\ script \in Scripts
    /\ incoming = Wire(script)
    /\ closed \in BOOLEAN
    /\ rbuf = <<>>
    /\ written = <<>>
    /\ slept = FALSE
    /\ stalled = FALSE
    /\ got = <<>>
    /\ ret = NoResult
    /\ calls = 0
    /\ last_io = "none"
    /\ hist = NoHistory

\* recv_bundle passing block = false to recv_from
Blocking_recv_bundle_polls(o) == o \notin {"try_recv_bundle", "recv_bundle"}

\* try_recv_bundle passing block = true to recv_from
Blocking_try_recv_bundle_waits(o) == TRUE

\* the block argument of recv_from at each of its call sites
Blocking(o) == o # "try_recv_bundle"

\* connect_stream owns the stream until it has built the Agent
InConnect(o) == o \in {"connect_stream", "send_message_to"}

\* the history once the running operation has returned r
Record(r) ==
    [replies |-> hist.replies
                 + (IF r.on # NoMessageValue
                          /\ op \in {"send_message_to", "send_bundle", "send_config"}
                    THEN 1 ELSE 0),
     failed |-> hist.failed \/ r.kind = "Err",
     malformed |-> hist.malformed \/ r.err = "MalformedMessage"]

\* an Err of connect_stream that kept the stream and handed the session back
Return_keeps_stream(r) ==
    /\ ret' = r
    /\ hist' = Record(r)
    /\ pc' = "idle"
    /\ agent' = InConnect(op) \/ agent
    /\ stream_dropped' = stream_dropped

\* a MalformedMessage that closed the session of the Agent it was returned to
Return_malformed_closes(r) ==
    /\ ret' = r
    /\ hist' = Record(r)
    /\ IF InConnect(op) \/ r.err = "MalformedMessage"
       THEN IF r.kind = "Ok"
            THEN pc' = "idle" /\ agent' = TRUE /\ stream_dropped' = FALSE
            ELSE pc' = "failed" /\ agent' = FALSE /\ stream_dropped' = TRUE
       ELSE pc' = "idle" /\ UNCHANGED <<agent, stream_dropped>>

\* the running operation returns r to its caller.  An Err (or `?`) inside
\* connect_stream drops the BufReader and the stream it owns; Ok builds the
\* Agent.  The operations on an Agent leave it as it is.
Return(r) ==
    /\ ret' = r
    /\ hist' = Record(r)
    /\ IF InConnect(op)
       THEN IF r.kind = "Ok"
            THEN pc' = "idle" /\ agent' = TRUE /\ stream_dropped' = FALSE
            ELSE pc' = "failed" /\ agent' = FALSE /\ stream_dropped' = TRUE
       ELSE pc' = "idle" /\ UNCHANGED <<agent, stream_dropped>>

\* send_message_unchecked_to: write_all puts every byte on the stream ...
WriteAll(bytes) == written' = Append(written, bytes) /\ last_io' = "none"

\* ... or fails after it has put all of them but the last
WriteFails(bytes) == written' = Append(written, SubSeq(bytes, 1, Len(bytes) - 1))

\* connect_stream returning the Agent as soon as Welcome is received
connect_stream_match_no_register(m) ==
    IF m.type = "Welcome"
    THEN /\ node_eid' = m.eid
         /\ Return(Ok(m, NoMessageValue))
         /\ UNCHANGED <<op, written>> /\ last_io' = "none"
    ELSE /\ Return(Err("UnexpectedMessage", m))
         /\ UNCHANGED <<op, node_eid, written>> /\ last_io' = "none"

\* connect_stream sending Register whatever the first message is
connect_stream_match_any_first(m) ==
    /\ node_eid' = m.eid
    /\ \/ /\ WriteAll(to_bytes(Register(agent_id)))
          /\ op' = "send_message_to"
          /\ UNCHANGED <<pc, agent, stream_dropped, ret, hist>>
       \/ /\ WriteFails(to_bytes(Register(agent_id)))
          /\ \E e \in IoErrors : Return(IOError(e)) /\ last_io' = e
          /\ op' = op

\* connect_stream: the match on the first message
connect_stream_match(m) ==
    IF m.type = "Welcome"
    THEN /\ node_eid' = m.eid
         /\ \/ /\ WriteAll(to_bytes(Register(agent_id)))
               /\ op' = "send_message_to"
               /\ UNCHANGED <<pc, agent, stream_dropped, ret, hist>>
            \/ /\ WriteFails(to_bytes(Register(agent_id)))
               /\ \E e \in IoErrors : Return(IOError(e)) /\ last_io' = e
               /\ op' = op
    ELSE /\ Return(Err("UnexpectedMessage", m))
         /\ UNCHANGED <<op, node_eid, written>> /\ last_io' = "none"

\* send_message_to without the Nack arm
send_message_to_match_no_nack(m) ==
    /\ IF m = Ack THEN Return(Ok(m, NoMessageValue))
       ELSE Return(Err("UnexpectedMessage", m))
    /\ UNCHANGED <<op, node_eid, written>> /\ last_io' = "none"

\* send_message_to: the match on the reply to Register
send_message_to_match(m) ==
    /\ IF m = Ack THEN Return(Ok(m, NoMessageValue))
       ELSE IF m = Nack THEN Return(Err("FailedOperation", m))
       ELSE Return(Err("UnexpectedMessage", m))
    /\ UNCHANGED <<op, node_eid, written>> /\ last_io' = "none"

\* send_bundle taking Ack for a confirmation
send_bundle_match_ack(m) ==
    /\ IF m.type \in {"SendConfirm", "Ack"}
       THEN Return(Ok(m, Msg("value", <<>>, <<>>, m.bundle_id)))
       ELSE Return(Err("UnexpectedMessage", m))
    /\ UNCHANGED <<op, node_eid, written>> /\ last_io' = "none"

\* send_bundle: the match on the reply
send_bundle_match(m) ==
    /\ IF m.type = "SendConfirm"
       THEN Return(Ok(m, Msg("value", <<>>, <<>>, m.bundle_id)))
       ELSE Return(Err("UnexpectedMessage", m))
    /\ UNCHANGED <<op, node_eid, written>> /\ last_io' = "none"

\* recv_bundle and try_recv_bundle: the match on the message
recv_bundle_match(m) ==
    /\ IF m.type = "RecvBundle"
       THEN Return(Ok(m, Msg("value", m.eid, m.payload, <<>>)))
       ELSE Return(Err("UnexpectedMessage", m))
    /\ UNCHANGED <<op, node_eid, written>> /\ last_io' = "none"

\* what send_bundle returns once recv_from has returned m
send_bundle_result(m) ==
    IF m.type = "SendConfirm"
    THEN Ok(m, Msg("value", <<>>, <<>>, m.bundle_id))
    ELSE Err("UnexpectedMessage", m)

\* send_config taking Ack for a confirmation
send_config_match_ack(m) ==
    /\ IF m.type \in {"SendConfirm", "Ack"}
       THEN Return(Ok(m, NoMessageValue))
       ELSE Return(send_bundle_result(m))
    /\ UNCHANGED <<op, node_eid, written>> /\ last_io' = "none"

\* send_config: the match on what its send_bundle returned, Ok(_) => Ok(())
\* and Err(e) => Err(e)
send_config_match(m) ==
    /\ IF send_bundle_result(m).kind = "Ok"
       THEN Return(Ok(m, NoMessageValue))
       ELSE Return(send_bundle_result(m))
    /\ UNCHANGED <<op, node_eid, written>> /\ last_io' = "none"

Match(m) ==
    CASE op = "connect_stream" -> connect_stream_match(m)
      [] op = "send_message_to" -> send_message_to_match(m)
      [] op = "send_bundle" -> send_bundle_match(m)
      [] op = "send_config" -> send_config_match(m)
      [] OTHER -> recv_bundle_match(m)

\* a fatal parse error that consumed nothing
consume_nothing(b) == b

\* what the BufReader holds after consume(bytes_in_buffer) on the buffer b
consume_all(b) == <<>>

\* recv_from, after fill_buf returned the non-empty buffer b and left inc in
\* the inner stream: parse, then consume and return, or loop
Deliver(b, inc) ==
    LET r == parse_buffer(b, overflow_checks)
    IN  /\ incoming' = inc
        /\ slept' = FALSE
        /\ UNCHANGED <<agent_id, arg_eid, arg_payload, script, closed, calls,
                       overflow_checks, codec_vars>>
        /\ CASE r.kind = "Ok" ->
                  /\ rbuf' = SubSeq(b, r.consumed + 1, Len(b))
                  /\ got' = Append(got, r.msg)
                  /\ stalled' = FALSE
                  /\ Match(r.msg)
             [] r.kind = "Panic" ->
                  /\ rbuf' = b
                  /\ pc' = "panicked"
                  /\ ret' = Panicked
                  /\ last_io' = "none"
                  /\ UNCHANGED <<got, stalled, op, agent, node_eid,
                                 stream_dropped, written, hist>>
             [] r.kind = "Err" /\ r.err \in {"VersionNotSupported", "UnknownType"} ->
                  /\ rbuf' = consume_all(b)
                  /\ Return(MalformedMessage(r))
                  /\ last_io' = "none"
                  /\ UNCHANGED <<got, stalled, op, node_eid, written>>
             [] OTHER ->
                  /\ rbuf' = b
                  /\ stalled' = TRUE
                  /\ last_io' = "none"
                  /\ UNCHANGED <<got, pc, op, agent, node_eid, stream_dropped,
                                 written, ret, hist>>

\* Agent::connect_stream(stream, agent_id): BufReader::new, then recv_from
ConnectStream ==
    /\ pc = "init"
    /\ \E a \in AgentIds : agent_id' = a
    /\ op' = "connect_stream"
    /\ pc' = "recv"
    /\ UNCHANGED <<overflow_checks, codec_vars, agent, node_eid, arg_eid,
                   arg_payload, stream_dropped, stream_vars, slept, stalled,
                   got, ret, calls, last_io, hist>>

\* fill_buf with bytes left in the BufReader: it returns them and reads nothing
FillBufBuffered ==
    /\ pc = "recv"
    /\ rbuf # <<>>
    /\ ~stalled
    /\ Deliver(rbuf, incoming)

\* the offsets in the bytes of the script at which an item ends
Boundaries == {Len(Wire(SubSeq(script, 1, i))) : i \in 0..Len(script)}

\* the sizes of one read of the inner stream: it ends at the end of an item,
\* one byte before it or one byte after it
ReadSizes ==
    LET pos == Len(Wire(script)) - Len(incoming)
    IN  UNION {{b - 1 - pos, b - pos, b + 1 - pos} : b \in Boundaries}
        \cap (1..Len(incoming))

\* fill_buf with an empty BufReader: one read of the inner stream, which
\* yields the next k bytes of the peer
FillBufRead ==
    /\ pc = "recv"
    /\ rbuf = <<>>
    /\ \E k \in ReadSizes :
        Deliver(SubSeq(incoming, 1, k), SubSeq(incoming, k + 1, Len(incoming)))

\* fill_buf fails with WouldBlock, no byte has arrived yet: sleep and retry
\* when blocking, NoMessage when not
FillBufWouldBlock ==
    /\ pc = "recv"
    /\ rbuf = <<>>
    /\ ~(incoming = <<>> /\ closed)
    /\ IF Blocking(op)
       THEN slept' = TRUE /\ UNCHANGED <<pc, agent, stream_dropped, ret, hist>>
       ELSE slept' = FALSE /\ Return(Err("NoMessage", NoMessageValue))
    /\ last_io' = "WouldBlock"
    /\ UNCHANGED <<overflow_checks, codec_vars, op, agent_id, node_eid, arg_eid,
                   arg_payload, stream_vars, stalled, got, calls>>

\* fill_buf returns the empty buffer at end of stream: bytes_in_buffer is 0
\* and the loop starts over
FillBufEof ==
    /\ pc = "recv"
    /\ rbuf = <<>>
    /\ incoming = <<>>
    /\ closed
    /\ ~stalled
    /\ stalled' = TRUE
    /\ slept' = FALSE
    /\ last_io' = "none"
    /\ UNCHANGED <<overflow_checks, codec_vars, pc, op, agent, agent_id, node_eid,
                   arg_eid, arg_payload, stream_dropped, stream_vars, got, ret,
                   calls, hist>>

\* recv_from sleeping and retrying on every error of fill_buf
FillBufError_retries ==
    /\ pc = "recv"
    /\ rbuf = <<>>
    /\ \E e \in IoErrors : last_io' = e
    /\ slept' = TRUE
    /\ UNCHANGED <<overflow_checks, codec_vars, pc, op, agent, agent_id, node_eid,
                   arg_eid, arg_payload, stream_dropped, stream_vars, stalled,
                   got, ret, calls, hist>>

\* fill_buf fails with another error
FillBufError ==
    /\ pc = "recv"
    /\ rbuf = <<>>
    /\ \E e \in IoErrors : Return(IOError(e)) /\ last_io' = e
    /\ slept' = FALSE
    /\ UNCHANGED <<overflow_checks, codec_vars, op, agent_id, node_eid, arg_eid,
                   arg_payload, stream_vars, stalled, got, calls>>

\* send_bundle returning as soon as the request is written
SendBundleCall_no_wait ==
    /\ pc = "idle"
    /\ agent
    /\ calls < MaxCalls
    /\ \E d \in Destinations, p \in BundlePayloads :
        /\ arg_eid' = d
        /\ arg_payload' = p
        /\ WriteAll(to_bytes(SendBundle(d, p)))
    /\ pc' = "idle"
    /\ ret' = Ok(NoMessageValue, NoMessageValue)
    /\ op' = "send_bundle"
    /\ calls' = calls + 1
    /\ slept' = FALSE
    /\ stalled' = FALSE
    /\ UNCHANGED <<overflow_checks, codec_vars, agent, agent_id, node_eid,
                   stream_dropped, script, incoming, closed, rbuf, got, hist>>

\* agent.send_bundle(destination_eid, payload)
SendBundleCall ==
    /\ pc = "idle"
    /\ agent
    /\ calls < MaxCalls
    /\ \E d \in Destinations, p \in BundlePayloads :
        /\ arg_eid' = d
        /\ arg_payload' = p
        /\ \/ /\ WriteAll(to_bytes(SendBundle(d, p)))
              /\ pc' = "recv"
              /\ ret' = NoResult
              /\ hist' = hist
           \/ /\ WriteFails(to_bytes(SendBundle(d, p)))
              /\ pc' = "idle"
              /\ \E e \in IoErrors :
                    /\ ret' = IOError(e)
                    /\ last_io' = e
                    /\ hist' = Record(IOError(e))
    /\ op' = "send_bundle"
    /\ calls' = calls + 1
    /\ slept' = FALSE
    /\ stalled' = FALSE
    /\ UNCHANGED <<overflow_checks, codec_vars, agent, agent_id, node_eid,
                   stream_dropped, script, incoming, closed, rbuf, got>>

\* "config", the text send_config appends to the EID of the node
ConfigSuffix == <<99, 111, 110, 102, 105, 103>>

\* the configuration sent on the session: it has no contact, so that its
\* to_bytes returns
SessionConfigs == {DeleteContact(<<110>>)}

\* agent.send_config(config): send_bundle of config.to_bytes() to the EID of
\* the node followed by "config"
SendConfigCall ==
    /\ pc = "idle"
    /\ agent
    /\ calls < MaxCalls
    /\ \E c \in SessionConfigs :
        /\ cfg' = c
        /\ cfg_bytes' = ConfigBundle_to_bytes(c)
        /\ arg_eid' = node_eid \o ConfigSuffix
        /\ arg_payload' = ConfigBundle_to_bytes(c).text
        /\ \/ /\ WriteAll(to_bytes(SendBundle(node_eid \o ConfigSuffix,
                                               ConfigBundle_to_bytes(c).text)))
              /\ pc' = "recv"
              /\ ret' = NoResult
              /\ hist' = hist
           \/ /\ WriteFails(to_bytes(SendBundle(node_eid \o ConfigSuffix,
                                                 ConfigBundle_to_bytes(c).text)))
              /\ pc' = "idle"
              /\ \E e \in IoErrors :
                    /\ ret' = IOError(e)
                    /\ last_io' = e
                    /\ hist' = Record(IOError(e))
    /\ op' = "send_config"
    /\ calls' = calls + 1
    /\ slept' = FALSE
    /\ stalled' = FALSE
    /\ UNCHANGED <<overflow_checks, msg, encoded, buffer, feed, parsed, cpc,
                   id_vars, cfg_text, dtn, dtn_sys, dtn_back, kpc, agent,
                   agent_id, node_eid, stream_dropped, script, incoming, closed,
                   rbuf, got>>

\* agent.recv_bundle()
RecvBundleCall ==
    /\ pc = "idle"
    /\ agent
    /\ calls < MaxCalls
    /\ op' = "recv_bundle"
    /\ pc' = "recv"
    /\ last_io' = "none"
    /\ ret' = NoResult
    /\ calls' = calls + 1
    /\ slept' = FALSE
    /\ stalled' = FALSE
    /\ UNCHANGED <<overflow_checks, codec_vars, agent, agent_id, node_eid,
                   arg_eid, arg_payload, stream_dropped, stream_vars, got, hist>>

\* agent.try_recv_bundle()
TryRecvBundleCall ==
    /\ pc = "idle"
    /\ agent
    /\ calls < MaxCalls
    /\ op' = "try_recv_bundle"
    /\ pc' = "recv"
    /\ last_io' = "none"
    /\ ret' = NoResult
    /\ calls' = calls + 1
    /\ slept' = FALSE
    /\ stalled' = FALSE
    /\ UNCHANGED <<overflow_checks, codec_vars, agent, agent_id, node_eid,
                   arg_eid, arg_payload, stream_dropped, stream_vars, got, hist>>

Next ==
    \/ ConnectStream
    \/ FillBufBuffered
    \/ FillBufRead
    \/ FillBufWouldBlock
    \/ FillBufEof
    \/ FillBufError
    \/ SendBundleCall
    \/ SendConfigCall
    \/ RecvBundleCall
    \/ TryRecvBundleCall

Spec == Init /\ [][Next]_vars

\* ------------------------------------------------------------------------
\* C1  Round trip: to_bytes never fails and parse_buffer of the bytes of a
\*     message returns that message and the length of the bytes.
\* ------------------------------------------------------------------------
RoundTrip ==
    /\ cpc # "panicked"
    /\ (cpc = "parsed" /\ feed = "whole") => parsed = ParseOk(msg, Len(encoded))

\* ------------------------------------------------------------------------
\* C3  Short input: parse_buffer of a proper prefix of an encoding, the empty
\*     buffer included, returns UnexpectedEnd; it does not panic and returns
\*     neither a message nor another error.
\* ------------------------------------------------------------------------
ShortInputIsUnexpectedEnd ==
    (cpc = "parsed" /\ feed = "prefix") => parsed = UnexpectedEnd

\* ------------------------------------------------------------------------
\* C4  The header byte decides the fatal errors: a first byte whose upper
\*     nibble is not 1 gives VersionNotSupported, upper nibble 1 with lower
\*     nibble t in 9..15 gives UnknownType(t), whatever bytes follow.
\* ------------------------------------------------------------------------
HeaderDecidesFatal ==
    (cpc = "parsed" /\ Len(buffer) > 0) =>
        /\ (buffer[1] \div 16 # 1) => parsed = VersionNotSupported
        /\ (buffer[1] \div 16 = 1 /\ buffer[1] % 16 \in 9..15) =>
                parsed = UnknownType(buffer[1] % 16)

\* a header of type 9 followed by further bytes was rejected as unknown type
HeaderDecidesFatalWitness ==
    /\ cpc = "parsed"
    /\ feed = "raw"
    /\ Len(buffer) > 1
    /\ buffer[1] = 25
    /\ parsed = UnknownType(9)


\* ------------------------------------------------------------------------
\* Helpers of the session properties
\* ------------------------------------------------------------------------

IsProperPrefix(a, b) == Len(a) < Len(b) /\ a = SubSeq(b, 1, Len(a))

\* the value send_bundle returns for SendConfirm(id)
IdValue(i) == Msg("value", <<>>, <<>>, i)

\* the value recv_bundle returns for RecvBundle(source, payload)
BundleValue(e, p) == Msg("value", e, p, <<>>)

LastWritten == written[Len(written)]

\* ------------------------------------------------------------------------
\* C2  Fragmentation invariance: while only a part of the next message has
\*     been read, a blocking receive goes on reading the missing bytes; it
\*     neither panics nor stalls on the partial prefix.
\* ------------------------------------------------------------------------
FragmentationInvariance ==
    ( /\ pc \in {"recv", "panicked"}
      /\ Blocking(op)
      /\ Len(got) < Len(script)
      /\ rbuf # <<>>
      /\ IsProperPrefix(rbuf, ItemBytes(script[Len(got) + 1])) )
    => (pc = "recv" /\ ~stalled)

\* ------------------------------------------------------------------------
\* C5  (as claimed) Handshake success: once connect has received
\*     Welcome(eid) as first message and no I/O error occurs, it returns a
\*     session with node_eid = eid.
\* ------------------------------------------------------------------------
WelcomeSuffices ==
    ( /\ InConnect(op)
      /\ pc \in {"idle", "failed"}
      /\ got # <<>>
      /\ got[1].type = "Welcome"
      /\ ret.err # "IOError" )
    => (ret.kind = "Ok" /\ agent /\ node_eid = got[1].eid)

\* ------------------------------------------------------------------------
\* C5  (amended) connect returns a session exactly when the first message is
\*     Welcome(eid) and the reply to the Register it then writes is Ack; the
\*     session's node_eid is eid.  Welcome alone does not make it return.
\* ------------------------------------------------------------------------
HandshakeSuccess ==
    /\ agent =>
        /\ Len(got) >= 2
        /\ got[1].type = "Welcome"
        /\ got[2] = Ack
        /\ node_eid = got[1].eid
        /\ Len(written) >= 1
        /\ written[1] = to_bytes(Register(agent_id))
    /\ (InConnect(op) /\ Len(got) >= 2 /\ got[1].type = "Welcome" /\ got[2] = Ack) =>
        (agent /\ pc = "idle" /\ ret.kind = "Ok" /\ node_eid = got[1].eid)

\* connect returned the session after Welcome("n") and Ack
HandshakeSuccessWitness ==
    /\ op = "send_message_to"
    /\ pc = "idle"
    /\ agent
    /\ got = <<Welcome(<<110>>), Ack>>
    /\ node_eid = <<110>>

\* ------------------------------------------------------------------------
\* C6  Handshake failure: when the first message connect receives is not
\*     Welcome, connect fails with UnexpectedMessage, and no byte is ever
\*     written to a stream whose first message is not Welcome.
\* ------------------------------------------------------------------------
HandshakeFailure ==
    /\ (Len(script) >= 1 /\ script[1].type # "Welcome") => written = <<>>
    /\ (got # <<>> /\ got[1].type # "Welcome") =>
        /\ pc = "failed"
        /\ ~agent
        /\ ret = Err("UnexpectedMessage", got[1])
        /\ written = <<>>

\* connect failed on a RecvBundle that arrived first, with more to come
HandshakeFailureWitness ==
    /\ pc = "failed"
    /\ got = <<RecvBundle(<<115>>, <<7>>)>>
    /\ Len(script) >= 2
    /\ ret.err = "UnexpectedMessage"
    /\ written = <<>>

\* ------------------------------------------------------------------------
\* C7  Register reply: once Register(agent_id) is written, the next message
\*     received decides: Ack gives Ok, Nack gives FailedOperation, any other
\*     message gives UnexpectedMessage.
\* ------------------------------------------------------------------------
RegisterReply ==
    op = "send_message_to" =>
        /\ written = <<to_bytes(Register(agent_id))>>
        /\ Len(got) >= 2 =>
            /\ pc # "recv"
            /\ IF got[2] = Ack THEN ret = Ok(Ack, NoMessageValue) /\ agent
               ELSE IF got[2] = Nack THEN ret = Err("FailedOperation", Nack) /\ ~agent
               ELSE ret = Err("UnexpectedMessage", got[2]) /\ ~agent
        /\ (ret.kind = "Ok" \/ ret.err \in {"FailedOperation", "UnexpectedMessage"})
                => Len(got) >= 2

\* a message that is neither Ack nor Nack answered Register
RegisterReplyWitness ==
    /\ op = "send_message_to"
    /\ Len(got) = 2
    /\ got[2].type = "SendConfirm"
    /\ ret.err = "UnexpectedMessage"

\* ------------------------------------------------------------------------
\* C8  (as claimed) After Register was answered with Nack the stream is still
\*     open and the session usable.
\* ------------------------------------------------------------------------
NackLeavesSessionUsable ==
    ret.err = "FailedOperation" => (~stream_dropped /\ pc = "idle")

\* ------------------------------------------------------------------------
\* C8  (amended) A Nack to Register makes connect_stream fail with
\*     FailedOperation: no session is returned and the stream connect_stream
\*     owned is dropped, so nothing more is written and Register cannot be
\*     retried on it.
\* ------------------------------------------------------------------------
NackEndsConnect ==
    ret.err = "FailedOperation" =>
        /\ pc = "failed"
        /\ stream_dropped
        /\ ~agent
        /\ calls = 0
        /\ written = <<to_bytes(Register(agent_id))>>

\* connect failed on Nack and dropped the stream
NackEndsConnectWitness ==
    /\ ret = Err("FailedOperation", Nack)
    /\ got = <<Welcome(<<110>>), Nack>>
    /\ stream_dropped

\* ------------------------------------------------------------------------
\* C9  send_bundle writes the encoding of SendBundle(destination, payload)
\*     and reads: SendConfirm(id) gives Ok(id), a message of any other kind
\*     gives UnexpectedMessage.
\* ------------------------------------------------------------------------
SendBundleReply ==
    op = "send_bundle" =>
        /\ (pc = "recv" \/ ret.kind = "Ok" \/ ret.err = "UnexpectedMessage") =>
                LastWritten = to_bytes(SendBundle(arg_eid, arg_payload))
        /\ (ret.kind = "Ok" \/ ret.err = "UnexpectedMessage") =>
            /\ pc = "idle"
            /\ ret.on = got[Len(got)]
            /\ IF ret.on.type = "SendConfirm"
               THEN ret = Ok(ret.on, IdValue(ret.on.bundle_id))
               ELSE ret = Err("UnexpectedMessage", ret.on)

\* send_bundle returned the identifier of the SendConfirm it received
SendBundleReplyWitness ==
    /\ op = "send_bundle"
    /\ pc = "idle"
    /\ ret.kind = "Ok"
    /\ ret.val = IdValue(<<0, 0, 0, 0, 43, 214, 97, 71>>)

\* ------------------------------------------------------------------------
\* C10 Blocking recv_bundle never returns NoMessage; it returns Ok or
\*     UnexpectedMessage only on a complete message: RecvBundle(source,
\*     payload) gives Ok((source, payload)), any other kind UnexpectedMessage.
\* ------------------------------------------------------------------------
BlockingRecvBundle ==
    op = "recv_bundle" =>
        /\ ret.err # "NoMessage"
        /\ pc = "idle" => ret.err \in {"none", "UnexpectedMessage", "MalformedMessage", "IOError"}
        /\ (ret.kind = "Ok" \/ ret.err = "UnexpectedMessage") =>
            /\ got # <<>>
            /\ ret.on = got[Len(got)]
            /\ IF ret.on.type = "RecvBundle"
               THEN ret = Ok(ret.on, BundleValue(ret.on.eid, ret.on.payload))
               ELSE ret = Err("UnexpectedMessage", ret.on)

\* recv_bundle returned source "s" and payload [7]
BlockingRecvBundleWitness ==
    /\ op = "recv_bundle"
    /\ pc = "idle"
    /\ ret.kind = "Ok"
    /\ ret.val = BundleValue(<<115>>, <<7>>)


\* ------------------------------------------------------------------------
\* C11 try_recv_bundle with an empty receive buffer on a stream that reports
\*     no data ready (WouldBlock) returns NoMessage without sleeping; the
\*     receive buffer and the unread bytes of the stream stay as they were
\*     and nothing is written.
\* ------------------------------------------------------------------------
NoMessageWithoutWaiting ==
    [][ ( /\ pc = "recv"
          /\ op = "try_recv_bundle"
          /\ rbuf = <<>>
          /\ last_io' = "WouldBlock" )
        => ( /\ ret' = Err("NoMessage", NoMessageValue)
             /\ pc' = "idle"
             /\ ~slept'
             /\ rbuf' = rbuf
             /\ incoming' = incoming
             /\ written' = written
             /\ got' = got ) ]_vars

\* try_recv_bundle returned NoMessage while the peer still had bytes to send
NoMessageWithoutWaitingWitness ==
    /\ op = "try_recv_bundle"
    /\ pc = "idle"
    /\ ret = Err("NoMessage", NoMessageValue)
    /\ last_io = "WouldBlock"
    /\ rbuf = <<>>
    /\ incoming # <<>>


\* ------------------------------------------------------------------------
\* C12 try_recv_bundle with a part of the next message buffered goes on
\*     reading the missing bytes: it neither panics nor stalls on the part
\*     it holds, and it does not give the part up.
\* ------------------------------------------------------------------------
PartialKeepsReading ==
    ( /\ op = "try_recv_bundle"
      /\ pc \in {"recv", "panicked"}
      /\ Len(got) < Len(script)
      /\ rbuf # <<>>
      /\ IsProperPrefix(rbuf, ItemBytes(script[Len(got) + 1])) )
    => (pc = "recv" /\ ~stalled)


\* ------------------------------------------------------------------------
\* C13 Stream end is surfaced: once the peer has closed the stream and every
\*     byte has been read, a receive that holds no complete message does not
\*     go on looping; fill_buf returning no bytes ends it with an error.
\* ------------------------------------------------------------------------
StreamEndSurfaced ==
    (pc = "recv" /\ closed /\ incoming = <<>> /\ rbuf = <<>>) => ~stalled


\* ------------------------------------------------------------------------
\* C14 A message whose text is not valid UTF-8 is a fatal decode error: the
\*     receive ends with MalformedMessage; it does not treat the buffer as
\*     incomplete and parse it again.
\* ------------------------------------------------------------------------
InvalidTextIsMalformed ==
    (pc = "recv" /\ rbuf # <<>> /\ parse_buffer(rbuf, overflow_checks) = Utf8Error)
    => ~stalled


\* ------------------------------------------------------------------------
\* C15 When the buffer recv_from parses starts with a header of another
\*     version or of an unknown type, the operation ends with
\*     MalformedMessage carrying that parse error and the whole buffer, the
\*     offending header included, is discarded.
\* ------------------------------------------------------------------------
FatalHeaderDiscarded ==
    [][ LET b == IF rbuf # <<>> THEN rbuf
                 ELSE SubSeq(incoming, 1, Len(incoming) - Len(incoming'))
            r == parse_buffer(b, overflow_checks)
        IN  ( /\ pc = "recv"
              /\ b # <<>>
              /\ r.err \in {"VersionNotSupported", "UnknownType"} )
            => ( /\ ret' = MalformedMessage(r)
                 /\ pc' \in {"idle", "failed"}
                 /\ rbuf' = <<>>
                 /\ got' = got ) ]_vars

\* recv_bundle ended on a header of type 9 and left nothing in the buffer
FatalHeaderDiscardedWitness ==
    /\ op = "recv_bundle"
    /\ pc = "idle"
    /\ ret = MalformedMessage(UnknownType(9))
    /\ rbuf = <<>>


RequestsWritten ==
    Cardinality({i \in DOMAIN written :
        LET r == parse_buffer(written[i], FALSE)
        IN  r.kind = "Ok" /\ r.consumed = Len(written[i])})

\* requests written whose reply no operation has read
InFlight == RequestsWritten - hist.replies

LegacyIdIsItsSequenceNumber ==
    (id # <<>> /\ id[1] < 128) =>
        /\ "sequence_number" \in ipc => id_seq = Some(id)
        /\ "creation_time" \in ipc => id_time = None

\* ------------------------------------------------------------------------
\* C19 (amended) For an identifier whose byte 0 has the high bit clear, both
\*     sequence_number() and creation_time() return nothing.
\* ------------------------------------------------------------------------
LegacyIdHasNeither ==
    (id # <<>> /\ id[1] < 128) =>
        /\ "sequence_number" \in ipc => id_seq = None
        /\ "creation_time" \in ipc => id_time = None

\* both accessors were applied to the legacy identifier 735469895
LegacyIdHasNeitherWitness ==
    /\ id = <<0, 0, 0, 0, 43, 214, 97, 71>>
    /\ ipc = {"creation_time", "sequence_number"}
    /\ id_seq = None
    /\ id_time = None

\* ------------------------------------------------------------------------
\* C20 creation_time() returns a value exactly when bits 0x80 and 0x40 of
\*     byte 0 are both set; with 0x80 set and 0x40 clear it returns nothing.
\* ------------------------------------------------------------------------
CreationTimeNeedsBothBits ==
    (id # <<>> /\ "creation_time" \in ipc) => (id_time.some <=> id[1] >= 192)

\* ------------------------------------------------------------------------
\* C21 Versioned identifiers: with bits 0x80 and 0x40 of byte 0 set,
\*     creation_time() is the low 6 bits of byte 0 followed by bytes 1 to 5
\*     and sequence_number() is bytes 6 to 7; with 0x80 set and 0x40 clear,
\*     sequence_number() is the low 6 bits of byte 0 followed by bytes 1 to 7.
\* ------------------------------------------------------------------------
VersionedFieldExtraction ==
    (id # <<>> /\ id[1] >= 128) =>
        /\ ("creation_time" \in ipc /\ id[1] >= 192) =>
                id_time = Some(<<0, 0, id[1] % 64, id[2], id[3], id[4], id[5], id[6]>>)
        /\ ("sequence_number" \in ipc /\ id[1] >= 192) =>
                id_seq = Some(<<0, 0, 0, 0, 0, 0, id[7], id[8]>>)
        /\ ("sequence_number" \in ipc /\ id[1] < 192) =>
                id_seq = Some(<<id[1] % 64, id[2], id[3], id[4], id[5], id[6], id[7], id[8]>>)

\* ------------------------------------------------------------------------
\* C22 DtnTime epoch: a DtnTime of m milliseconds is the Unix epoch plus
\*     946,684,800 seconds plus m milliseconds, the offset dtn_timestamp
\*     subtracts, so that dtn_timestamp of it is m / 1000 seconds.
\* ------------------------------------------------------------------------
DtnTimeEpoch ==
    /\ "as_system_time" \in kpc =>
            dtn_sys = SystemTime(946684800 + dtn \div 1000, dtn % 1000)
    /\ "dtn_timestamp" \in kpc => dtn_back = Secs(dtn \div 1000)

\* ------------------------------------------------------------------------
\* Helpers of the config properties
\* ------------------------------------------------------------------------

\* "[" parts joined by "," "]"
Bracketed(parts) == <<91>> \o Join(parts) \o <<93>>

\* "(" eid ")" of each reach, in list order
ReachParts(rs) == [i \in 1..Len(rs) |-> <<40>> \o rs[i] \o <<41>>]

\* the rate of a contact as text
RateText(r) ==
    IF r.limited THEN Decimal(r.rate) ELSE <<52, 50, 57, 52, 57, 54, 55, 50, 48, 48>>

\* "{start,end,rate}" of each contact, in list order, the times in seconds
\* after 2000-01-01T00:00:00 UTC
ContactParts(cs) ==
    [i \in 1..Len(cs) |->
        <<123>> \o Decimal(cs[i].start.secs - 946684800) \o <<44>>
        \o Decimal(cs[i].end.secs - 946684800) \o <<44>>
        \o RateText(cs[i].data_rate) \o <<125>>]

\* "k(" eid ")" and "," reliability when there is one
CommandPart(k, c) ==
    <<k, 40>> \o c.eid \o <<41>>
    \o (IF c.reliability.some THEN <<44>> \o Decimal(c.reliability.value) ELSE <<>>)

\* to_string was applied to cfg and returned
Rendered(k) == cfg.kind = k /\ "to_string" \in kpc /\ cfg_text.kind = "Ok"

\* ------------------------------------------------------------------------
\* C23 (as claimed) AddContact: "1(" eid ")", "," reliability when present,
\*     ":(" cla ")", then the reach section and the contact section, each
\*     ":" and the bracketed list when the list is non-empty and the bare
\*     ":" when it is empty, then ";".
\* ------------------------------------------------------------------------
AddContactBothSectionsColon ==
    Rendered("AddContact") =>
        cfg_text.text =
            CommandPart(49, cfg) \o <<58, 40>> \o cfg.cla_address \o <<41>>
            \o <<58>> \o (IF cfg.reaches_eid # <<>>
                          THEN Bracketed(ReachParts(cfg.reaches_eid)) ELSE <<>>)
            \o <<58>> \o (IF cfg.contacts # <<>>
                          THEN Bracketed(ContactParts(cfg.contacts)) ELSE <<>>)
            \o <<59>>

\* ------------------------------------------------------------------------
\* C23 (amended) AddContact: "1(" eid ")", "," reliability when present,
\*     ":(" cla ")", then ":" followed by the bracketed reaches when there
\*     are reaches, then ":" and the bracketed contacts when there are
\*     contacts and nothing at all when there are none, then ";".
\* ------------------------------------------------------------------------
AddContactEncoding ==
    Rendered("AddContact") =>
        cfg_text.text =
            CommandPart(49, cfg) \o <<58, 40>> \o cfg.cla_address \o <<41>>
            \o <<58>> \o (IF cfg.reaches_eid # <<>>
                          THEN Bracketed(ReachParts(cfg.reaches_eid)) ELSE <<>>)
            \o (IF cfg.contacts # <<>>
                THEN <<58>> \o Bracketed(ContactParts(cfg.contacts)) ELSE <<>>)
            \o <<59>>

\* an AddContact with reaches and no contacts was rendered: 1(n),333:(c):[(r),(s)];
AddContactEncodingWitness ==
    /\ Rendered("AddContact")
    /\ cfg.contacts = <<>>
    /\ cfg_text.text =
        <<49, 40, 110, 41, 44, 51, 51, 51, 58, 40, 99, 41, 58, 91, 40, 114, 41, 44,
          40, 115, 41, 93, 59>>

\* ------------------------------------------------------------------------
\* C24 ReplaceContact: "2(" eid ")", "," reliability when present, then ":"
\*     followed by "(" cla ")" when a CLA is present and by nothing when it
\*     is absent, then the reach and contact sections as AddContact renders
\*     them, then ";".  With a CLA the text is that of the AddContact of the
\*     same fields with "2" for its leading "1".
\* ------------------------------------------------------------------------
ReplaceContactEncoding ==
    Rendered("ReplaceContact") =>
        LET add == to_string(AddContact(cfg.eid, cfg.reliability, <<99>>,
                                        cfg.reaches_eid, cfg.contacts)).text
            head == Len(CommandPart(49, cfg)) + 4
            sections == SubSeq(add, head + 1, Len(add))
        IN  /\ SubSeq(add, 1, head) = CommandPart(49, cfg) \o <<58, 40, 99, 41>>
            /\ cfg.cla_address.some =>
                    /\ cfg.cla_address.value = <<99>>
                    /\ cfg_text.text = <<50>> \o Tail(add)
            /\ ~cfg.cla_address.some =>
                    cfg_text.text = CommandPart(50, cfg) \o <<58>> \o sections
            /\ cfg_text.text[Len(cfg_text.text)] = 59

\* a ReplaceContact without CLA, reaches and contacts was rendered: 2(n)::;
ReplaceContactEncodingWitness ==
    /\ Rendered("ReplaceContact")
    /\ ~cfg.cla_address.some
    /\ cfg_text.text = <<50, 40, 110, 41, 58, 58, 59>>

\* ------------------------------------------------------------------------
\* C25 DeleteContact(eid) is "3(" eid ");", and to_bytes of a bundle is the
\*     bytes of its to_string, which end with ";".
\* ------------------------------------------------------------------------
DeleteContactEncoding ==
    /\ Rendered("DeleteContact") => cfg_text.text = <<51, 40>> \o cfg.eid \o <<41, 59>>
    /\ {"to_string", "to_bytes"} \subseteq kpc => cfg_bytes = cfg_text
    /\ ("to_bytes" \in kpc /\ cfg_bytes.kind = "Ok") =>
            /\ cfg_bytes.text # <<>>
            /\ cfg_bytes.text[Len(cfg_bytes.text)] = 59

\* DeleteContact("dtn://n/") was rendered and turned into bytes
DeleteContactEncodingWitness ==
    /\ Rendered("DeleteContact")
    /\ "to_bytes" \in kpc
    /\ Len(cfg.eid) = 8
    /\ cfg_bytes.text = <<51, 40>> \o cfg.eid \o <<41, 59>>

\* ------------------------------------------------------------------------
\* C26 Contact fields: to_string returns for every contact time; start and
\*     end are rendered as the Unix seconds of the time minus 946684800, a
\*     Limited(r) rate as r and an Unlimited rate as 4294967200.
\* ------------------------------------------------------------------------
ContactFieldsRendered ==
    (cfg.kind \in {"AddContact", "ReplaceContact"} /\ "to_string" \in kpc
        /\ cfg.contacts # <<>>) =>
        /\ cfg_text.kind = "Ok"
        /\ LET t == cfg_text.text
               list == <<58>> \o Bracketed(ContactParts(cfg.contacts)) \o <<59>>
           IN  /\ Len(t) > Len(list)
               /\ SubSeq(t, Len(t) - Len(list) + 1, Len(t)) = list

\* ------------------------------------------------------------------------
\* C28 Wire layout: byte 0 of to_bytes is 0x10 with the type code in the low
\*     four bits; Ack, Nack and Ping are that byte alone; SendConfirm and
\*     CancelBundle are it and the 8 identifier bytes; a text field is its
\*     byte count in 16 bits, big-endian, then its bytes; a payload is its
\*     byte count in 64 bits, big-endian, then its bytes.
\* ------------------------------------------------------------------------
WireLayout ==
    (cpc \in {"encoded", "fed", "parsed"} /\ encoded # <<>>) =>
        LET n == Len(msg.eid)
            p == Len(msg.payload)
        IN  /\ encoded[1] = 16 + TypeCode(msg)
            /\ TypeCode(msg) \in 0..8
            /\ msg.type \in {"Ack", "Nack", "Ping"} => Len(encoded) = 1
            /\ msg.type \in {"SendConfirm", "CancelBundle"} =>
                    /\ Len(encoded) = 9
                    /\ SubSeq(encoded, 2, 9) = msg.bundle_id
            /\ msg.type \in {"Register", "Welcome", "SendBundle", "RecvBundle"} =>
                    /\ encoded[2] * 256 + encoded[3] = n
                    /\ SubSeq(encoded, 4, 3 + n) = msg.eid
            /\ msg.type \in {"Register", "Welcome"} => Len(encoded) = 3 + n
            /\ msg.type \in {"SendBundle", "RecvBundle"} =>
                    /\ Len(encoded) = 11 + n + p
                    /\ SubSeq(encoded, 4 + n, 7 + n) = <<0, 0, 0, 0>>
                    /\ from_be_bytes(SubSeq(encoded, 8 + n, 11 + n)) = p
                    /\ SubSeq(encoded, 12 + n, 11 + n + p) = msg.payload

\* ------------------------------------------------------------------------
\* C27 send_config(c) is send_bundle(node_eid + "config", to_bytes(c)) with
\*     the identifier of Ok dropped: the bytes written are those of that
\*     SendBundle, the reply consumed is the message recv_from returned, and
\*     the result is Ok exactly when send_bundle's is, its Err otherwise.
\* ------------------------------------------------------------------------
SendConfigIsSendBundle ==
    op = "send_config" =>
        LET request == to_bytes(SendBundle(node_eid \o ConfigSuffix,
                                           ConfigBundle_to_bytes(cfg).text))
            sent == written[Len(written)]
        IN  /\ written # <<>>
            /\ \/ sent = request
               \/ /\ sent = SubSeq(request, 1, Len(request) - 1)
                  /\ pc = "idle"
                  /\ ret.err = "IOError"
            /\ (pc = "idle" /\ ret.on # NoMessageValue) =>
                    /\ got # <<>>
                    /\ ret.on = got[Len(got)]
                    /\ ret.kind = send_bundle_result(ret.on).kind
                    /\ ret.err = send_bundle_result(ret.on).err
                    /\ ret.val = NoMessageValue
            /\ ret.kind = "Ok" => ret.on.type = "SendConfirm"

\* send_config returned Ok on the SendConfirm that followed the handshake
SendConfigIsSendBundleWitness ==
    /\ op = "send_config"
    /\ pc = "idle"
    /\ ret.kind = "Ok"
    /\ ret.on.type = "SendConfirm"
    /\ Len(got) = 3
    /\ written[Len(written)]
            = to_bytes(SendBundle(<<110>> \o ConfigSuffix, <<51, 40, 110, 41, 59>>))

\* the peer sends messages only
WellFormedScript == \A i \in DOMAIN script : script[i].type # "garbage"

\* ------------------------------------------------------------------------
\* C29 In-order, exactly-once delivery: on a stream of well-formed messages,
\*     however the reads cut it, the receive calls neither panic nor stop
\*     on a message that arrived in parts; what they have returned is the
\*     start of what the peer sent, in order, and the bytes not yet consumed
\*     are exactly those of the messages that follow.
\* ------------------------------------------------------------------------
InOrderExactlyOnce ==
    WellFormedScript =>
        /\ pc # "panicked"
        /\ ~(stalled /\ rbuf # <<>>)
        /\ Len(got) <= Len(script)
        /\ got = SubSeq(script, 1, Len(got))
        /\ rbuf \o incoming = Wire(SubSeq(script, Len(got) + 1, Len(script)))

\* the operations that write a request and wait for its reply
RequestOps == {"send_message_to", "send_bundle", "send_config"}

\* ------------------------------------------------------------------------
\* C30 Interleaving: a RecvBundle that arrives while a request waits for its
\*     reply is not taken by the request operation, and a request operation
\*     that waits has no reply of an earlier request before its own.
\* ------------------------------------------------------------------------
InterleavingKeepsMessages ==
    /\ (op \in RequestOps /\ pc \in {"idle", "failed"}) => ret.on.type # "RecvBundle"
    /\ (op \in RequestOps /\ pc = "recv") => InFlight = 1

\* the text messages: those whose encoding holds a 16-bit length and a text
TextTypes == {"Register", "Welcome", "SendBundle", "RecvBundle"}

\* ------------------------------------------------------------------------
\* C31 For every message with a text field and every text length, the 16-bit
\*     length written by to_bytes is the number of text bytes written after
\*     it; a text of more than 65535 bytes is not written in full behind a
\*     length taken modulo 2^16.
\* ------------------------------------------------------------------------
LengthPrefixNeverWraps ==
    (cpc # "start" /\ msg.type \in TextTypes) =>
        LET prefix == from_be_bytes(SubSeq(encoded, 2, 3))
            after == Len(encoded) - 3
                     - (IF msg.type \in {"SendBundle", "RecvBundle"}
                        THEN 8 + Len(msg.payload) ELSE 0)
        IN  /\ prefix = after
            /\ ~(Len(msg.eid) > U16 - 1 /\ after = Len(msg.eid)
                 /\ prefix = Len(msg.eid) % U16)

\* the buffer holds the header of a SendBundle or RecvBundle, its text and
\* the 8 bytes of its payload length
BundleLengthPresent ==
    /\ Len(buffer) >= 3
    /\ buffer[1] \in {16 + 3, 16 + 4}
    /\ LET n == from_be_bytes(SubSeq(buffer, 2, 3))
       IN  /\ Len(buffer) >= 3 + n + 8
           /\ from_utf8_ok(SubSeq(buffer, 4, 3 + n))

\* the declared payload length is more than the bytes that follow it
DeclaredExceedsRemaining ==
    LET n == from_be_bytes(SubSeq(buffer, 2, 3))
        high == SubSeq(buffer, 4 + n, 8 + n)
        low == from_be_bytes(SubSeq(buffer, 9 + n, 11 + n))
    IN  \/ \E i \in 1..5 : high[i] # 0
        \/ low > Len(buffer) - (11 + n)

\* ------------------------------------------------------------------------
\* C32 For a SendBundle or RecvBundle whose header, text and payload length
\*     are present, parse_buffer returns UnexpectedEnd whenever the declared
\*     length, whatever its 64-bit value, exceeds the bytes that remain: the
\*     check does not overflow, and a consumed count returned is at most the
\*     length of the buffer.
\* ------------------------------------------------------------------------
PayloadBoundChecked ==
    (cpc = "parsed" /\ BundleLengthPresent) =>
        /\ parsed.kind # "Panic"
        /\ DeclaredExceedsRemaining => parsed = UnexpectedEnd
        /\ parsed.kind = "Ok" => parsed.consumed <= Len(buffer)

====
